---- MODULE Spec2Model ----
(***************************************************************************)
(* Model of the image-upload relay (src/src/index.ts): the POST /upload    *)
(* handler as a process per request that is suspended at every await, the  *)
(* base64url / signing helpers and the multipart body assembly.            *)
(***************************************************************************)
EXTENDS Integers, Sequences, FiniteSets, TLC

VARIABLES
    clock,           \* wall clock in milliseconds, what Date.now() returns
    env,             \* c.env: GOOGLE_CLOUD_SERVICE_ACCOUNT_KEY, BUCKET_NAME
    pc,              \* per request: the await the handler is suspended at
    file,            \* per request: the request body / formData.get("image")
    payload,         \* per request: the assertion payload (exp, iat)
    objectName,      \* per request: the objectName local
    tokenResponse,   \* per request: tokenResponse.ok as received
    uploadResponse,  \* per request: uploadResponse.ok as received
    tokenFetch,      \* per request: requests sent to the token endpoint
    uploadFetch,     \* per request: requests sent to the upload endpoint
    response,        \* per request: responses written to the client
    error,           \* per request: the error the catch block logged
    jwtClaims,       \* signing: the payload object (iss, exp, iat)
    unsignedToken,   \* signing: `${encodedHeader}.${encodedPayload}`
    signature,       \* signing: what crypto.subtle.sign was given and returned
    jwt,             \* signing: the assertion put into the token request
    signPc,          \* signing: position in lines 77-81
    upload,          \* encoding: Date.now(), file.name, file.type, file bytes
    boundary,        \* encoding: the boundary local
    metadata,        \* encoding: JSON.stringify(metadata)
    body,            \* encoding: the body buffer
    encPc            \* encoding: position in lines 93-124

handlerVars == <<clock, env, pc, file, payload, objectName, tokenResponse,
                 uploadResponse, tokenFetch, uploadFetch, response, error>>
signVars == <<jwtClaims, unsignedToken, signature, jwt, signPc>>
encVars == <<upload, boundary, metadata, body, encPc>>

vars == <<handlerVars, signVars, encVars>>

----------------------------------------------------------------------------
(* Bounds *)

NumReq == 2
StartClock == 999
ClockSpan == 1

Requests == 1..NumReq
MaxClock == StartClock + ClockSpan

(* Program constants *)

MsPerSec == 1000
Lifetime == 3600

----------------------------------------------------------------------------
(* Input domains *)

\* The credential blob: not JSON at all, JSON whose private_key cannot be
\* imported, or a usable service-account key.
CredentialBlobs == {"notJson", "badKey", "valid"}
BucketNames == {"bucket-a", "bucket-b"}

\* What the request body yields: a body formData() cannot parse, form data
\* without an image field, an image field holding "" or a non-empty string,
\* or an image field holding a File.
BodyKinds == {"unparseable", "absent", "emptyText", "text", "File"}
FileNames == {"a.png", "b.png"}

\* what a fetch() settles to: a response with ok true or false, or a rejection
FetchResults == {"ok", "notOk", "rejected"}

None == "none"

\* only a File has a name
RequestBodies ==
    {[kind |-> k, name |-> "none"] : k \in BodyKinds \ {"File"}}
        \cup {[kind |-> "File", name |-> n] : n \in FileNames}
NoFile == [kind |-> "none", name |-> "none"]
NoPayload == [built |-> FALSE]

----------------------------------------------------------------------------
(* Pure pieces of the handler *)

\* formData.get("image") for a parsed body: null, a string or a File
ImageField(f) ==
    CASE f.kind = "absent"    -> [kind |-> "null"]
      [] f.kind = "emptyText" -> [kind |-> "string", value |-> ""]
      [] f.kind = "text"      -> [kind |-> "string", value |-> "x"]
      [] f.kind = "File"      -> [kind |-> "File", name |-> f.name]

\* !file
MissingImage(f) ==
    \/ ImageField(f).kind = "null"
    \/ ImageField(f).kind = "string" /\ ImageField(f).value = ""

\* file.name: a string has no name property
FileNameOf(f) ==
    IF ImageField(f).kind = "File" THEN ImageField(f).name ELSE "undefined"

\* JSON.parse(c.env.GOOGLE_CLOUD_SERVICE_ACCOUNT_KEY) throws
JsonParseThrows(blob) == blob = "notJson"

\* importPrivateKey / crypto.subtle.sign reject
SignThrows(blob) == blob # "valid"

\* lines 61-66 up to the first statement that leaves the straight path:
\* formData() rejects, the 400 return, JSON.parse throws, or none of them
ParseStep_ParseFirst(f, blob) ==
    IF f.kind = "unparseable" THEN "formData"
    ELSE IF JsonParseThrows(blob) THEN "JSON.parse"
    ELSE IF MissingImage(f) THEN "missing"
    ELSE "proceed"

ParseStep(f, blob) ==
    IF f.kind = "unparseable" THEN "formData"
    ELSE IF MissingImage(f) THEN "missing"
    ELSE IF JsonParseThrows(blob) THEN "JSON.parse"
    ELSE "proceed"

ExpOf(now) == (now \div MsPerSec) + Lifetime
IatOf(now) == now \div MsPerSec

\* `images/${Date.now()}-${file.name}`
ObjectNameOf(now, f) == <<"images/", now, "-", FileNameOf(f)>>

\* `https://storage.googleapis.com/${bucketName}/${objectName}`
PublicUrl(bucketName, name) ==
    <<"https://storage.googleapis.com/", bucketName, "/", name>>

SuccessText_Renamed(r) ==
    [status |-> 200,
     body   |-> <<"Image uploaded successfully: ",
                  PublicUrl(env.BUCKET_NAME, ObjectNameOf(clock, file[r]))>>]

SuccessText(r) ==
    [status |-> 200,
     body   |-> <<"Image uploaded successfully: ",
                  PublicUrl(env.BUCKET_NAME, objectName[r])>>]

MissingText == [status |-> 400, body |-> <<"Missing image file">>]

CatchStatus_ByKind(err) == IF err = "JSON.parse" THEN 400 ELSE 500
CatchStatus(err) == 500

CatchBody_Leak(err) == <<err>>
CatchBody(err) == <<"Internal Server Error">>

\* the catch block: log the error, answer with the generic text
Catch(r, err) ==
    /\ error' = [error EXCEPT ![r] = err]
    /\ response' = [response EXCEPT
                      ![r] = Append(@, [status |-> CatchStatus(err),
                                        body   |-> CatchBody(err)])]
    /\ pc' = [pc EXCEPT ![r] = "done"]

----------------------------------------------------------------------------
(* Strings are sequences of character codes, buffers sequences of bytes *)

CR == 13
LF == 10
Dash == 45
Dot == 46
Quote == 34
Backslash == 92
PadChar == 61
Plus == 43
Slash == 47
Underscore == 95
CloseBrace == 125

RECURSIVE Concat(_)
Concat(ss) == IF ss = <<>> THEN <<>> ELSE Head(ss) \o Concat(Tail(ss))

\* "ABCDEFGHIJKLMNOPQRSTUVWXYZabcdefghijklmnopqrstuvwxyz0123456789+/"
B64Chars == <<65, 66, 67, 68, 69, 70, 71, 72, 73, 74, 75, 76, 77, 78, 79, 80,
              81, 82, 83, 84, 85, 86, 87, 88, 89, 90, 97, 98, 99, 100, 101,
              102, 103, 104, 105, 106, 107, 108, 109, 110, 111, 112, 113,
              114, 115, 116, 117, 118, 119, 120, 121, 122, 48, 49, 50, 51,
              52, 53, 54, 55, 56, 57, 43, 47>>

\* the UTF-8 bytes of one character (code points below 0x800)
Utf8Char(c) == IF c < 128 THEN <<c>> ELSE <<192 + (c \div 64), 128 + (c % 64)>>

\* Buffer.from(str), encoder.encode(str): the UTF-8 bytes of a string
RECURSIVE Utf8(_)
Utf8(str) ==
    IF Len(str) = 0 THEN <<>>
    ELSE IF Len(str) = 1 THEN Utf8Char(str[1])
    ELSE LET h == Len(str) \div 2 IN
         Utf8(SubSeq(str, 1, h)) \o Utf8(SubSeq(str, h + 1, Len(str)))

\* buf.toString("base64"): four characters for every three bytes, padded
ToBase64(bytes) ==
    LET n == Len(bytes)
        At(k) == IF k <= n THEN bytes[k] ELSE 0
    IN  [i \in 1..(4 * ((n + 2) \div 3)) |->
           LET g  == 3 * ((i - 1) \div 4)
               b1 == At(g + 1)
               b2 == At(g + 2)
               b3 == At(g + 3)
           IN  CASE (i - 1) % 4 = 0 -> B64Chars[(b1 \div 4) + 1]
                 [] (i - 1) % 4 = 1 ->
                      B64Chars[((b1 % 4) * 16) + (b2 \div 16) + 1]
                 [] (i - 1) % 4 = 2 ->
                      IF g + 2 > n THEN PadChar
                      ELSE B64Chars[((b2 % 16) * 4) + (b3 \div 64) + 1]
                 [] (i - 1) % 4 = 3 ->
                      IF g + 3 > n THEN PadChar ELSE B64Chars[(b3 % 64) + 1]]

\* str.replace(/x/g, y) for a single character x
ReplaceAll(str, x, y) == [i \in 1..Len(str) |-> IF str[i] = x THEN y ELSE str[i]]

\* str.replace(/=+$/, "")
RECURSIVE StripPadding(_)
StripPadding(str) ==
    IF str # <<>> /\ str[Len(str)] = PadChar
    THEN StripPadding(SubSeq(str, 1, Len(str) - 1))
    ELSE str

base64urlEncode(data) ==
    StripPadding(ReplaceAll(ReplaceAll(ToBase64(Utf8(data)), Plus, Dash),
                            Slash, Underscore))

\* the value sign() returns for the raw signature crypto.subtle.sign gave
SignResult(rawSignature) == base64urlEncode(ToBase64(rawSignature))

\* Number.prototype.toString(): decimal digits of a non-negative integer
RECURSIVE Dec(_)
Dec(n) == IF n < 10 THEN <<48 + n>> ELSE Dec(n \div 10) \o <<48 + (n % 10)>>

\* "0123456789abcdef"
HexDigits == <<48, 49, 50, 51, 52, 53, 54, 55, 56, 57, 97, 98, 99, 100, 101,
               102>>

\* JSON.stringify of one character of a string
JsonEscapeChar(c) ==
    CASE c = Quote     -> <<Backslash, Quote>>
      [] c = Backslash -> <<Backslash, Backslash>>
      [] c = LF        -> <<Backslash, 110>>
      [] c = CR        -> <<Backslash, 114>>
      [] c = 9         -> <<Backslash, 116>>
      [] c = 8         -> <<Backslash, 98>>
      [] c = 12        -> <<Backslash, 102>>
      [] c < 32 /\ c \notin {8, 9, 10, 12, 13} ->
           <<Backslash, 117, 48, 48,
             HexDigits[(c \div 16) + 1], HexDigits[(c % 16) + 1]>>
      [] OTHER -> <<c>>

RECURSIVE JsonEscape(_)
JsonEscape(str) ==
    IF Len(str) = 0 THEN <<>>
    ELSE IF Len(str) = 1 THEN JsonEscapeChar(str[1])
    ELSE LET h == Len(str) \div 2 IN
         JsonEscape(SubSeq(str, 1, h)) \o JsonEscape(SubSeq(str, h + 1, Len(str)))

\* JSON.stringify of a string: quotes, with ", \ and control characters escaped
JsonString(str) == <<Quote>> \o JsonEscape(str) \o <<Quote>>

\* '{"alg":"RS256","typ":"JWT"}'
HeaderJson == <<123, 34, 97, 108, 103, 34, 58, 34, 82, 83, 50, 53, 54, 34, 44,
                34, 116, 121, 112, 34, 58, 34, 74, 87, 84, 34, 125>>

\* '{"iss":'
IssKey == <<123, 34, 105, 115, 115, 34, 58>>

\* ',"scope":"https://www.googleapis.com/auth/devstorage.read_write",
\*   "aud":"https://oauth2.googleapis.com/token","exp":'
ClaimsMid == <<44, 34, 115, 99, 111, 112, 101, 34, 58, 34, 104, 116, 116, 112,
               115, 58, 47, 47, 119, 119, 119, 46, 103, 111, 111, 103, 108,
               101, 97, 112, 105, 115, 46, 99, 111, 109, 47, 97, 117, 116,
               104, 47, 100, 101, 118, 115, 116, 111, 114, 97, 103, 101, 46,
               114, 101, 97, 100, 95, 119, 114, 105, 116, 101, 34, 44, 34, 97,
               117, 100, 34, 58, 34, 104, 116, 116, 112, 115, 58, 47, 47, 111,
               97, 117, 116, 104, 50, 46, 103, 111, 111, 103, 108, 101, 97,
               112, 105, 115, 46, 99, 111, 109, 47, 116, 111, 107, 101, 110,
               34, 44, 34, 101, 120, 112, 34, 58>>

\* ',"iat":'
IatKey == <<44, 34, 105, 97, 116, 34, 58>>

\* JSON.stringify(payload)
PayloadJson(claims) ==
    Concat(<<IssKey, JsonString(claims.iss), ClaimsMid, Dec(claims.exp),
             IatKey, Dec(claims.iat), <<CloseBrace>>>>)

\* `${encodedHeader}.${encodedPayload}`
UnsignedToken(claims) ==
    Concat(<<base64urlEncode(HeaderJson), <<Dot>>,
             base64urlEncode(PayloadJson(claims))>>)

\* `${unsignedToken}.${signature}`
Jwt(token, rawSignature) == Concat(<<token, <<Dot>>, SignResult(rawSignature)>>)

----------------------------------------------------------------------------
(* The multipart body *)

NumWords == 4

\* "0123456789abcdefghijklmnopqrstuvwxyz"
Digits36 == <<48, 49, 50, 51, 52, 53, 54, 55, 56, 57, 97, 98, 99, 100, 101,
              102, 103, 104, 105, 106, 107, 108, 109, 110, 111, 112, 113, 114,
              115, 116, 117, 118, 119, 120, 121, 122>>

\* n.toString(36)
RECURSIVE ToString36(_)
ToString36(n) ==
    IF n < 36 THEN <<Digits36[n + 1]>>
    ELSE ToString36(n \div 36) \o <<Digits36[(n % 36) + 1]>>

DigitValue36(c) == (CHOOSE i \in 1..36 : Digits36[i] = c) - 1

\* parseInt(str, 36)
RECURSIVE ParseInt36(_)
ParseInt36(str) ==
    IF str = <<>> THEN 0
    ELSE ParseInt36(SubSeq(str, 1, Len(str) - 1)) * 36
         + DigitValue36(str[Len(str)])

\* typedArray.map((n) => parseInt(n.toString(36), 36)); every result is below
\* 2^32, so storing it back into the Uint32Array keeps its value
MapWords(words) == [i \in 1..Len(words) |-> ParseInt36(ToString36(words[i]))]

\* typedArray.join("")
RECURSIVE JoinWords(_)
JoinWords(words) ==
    IF words = <<>> THEN <<>> ELSE Dec(Head(words)) \o JoinWords(Tail(words))

\* "----WebKitFormBoundary"
BoundaryPrefix == <<45, 45, 45, 45, 87, 101, 98, 75, 105, 116, 70, 111, 114,
                    109, 66, 111, 117, 110, 100, 97, 114, 121>>

BoundaryOf(words) == BoundaryPrefix \o JoinWords(MapWords(words))

\* "images/"
ImagesPrefix == <<105, 109, 97, 103, 101, 115, 47>>

\* `images/${Date.now()}-${file.name}` as text
ObjectNameText(now, name) == Concat(<<ImagesPrefix, Dec(now), <<Dash>>, name>>)

\* '{"name":'
NameKey == <<123, 34, 110, 97, 109, 101, 34, 58>>

\* ',"contentType":'
ContentTypeKey == <<44, 34, 99, 111, 110, 116, 101, 110, 116, 84, 121, 112,
                    101, 34, 58>>

\* JSON.stringify(metadata)
MetadataJson(name, type) ==
    Concat(<<NameKey, JsonString(name), ContentTypeKey, JsonString(type),
             <<CloseBrace>>>>)

\* "Content-Type: application/json"
ContentTypeJson == <<67, 111, 110, 116, 101, 110, 116, 45, 84, 121, 112, 101,
                     58, 32, 97, 112, 112, 108, 105, 99, 97, 116, 105, 111,
                     110, 47, 106, 115, 111, 110>>

\* "Content-Type: "
ContentTypeLabel == <<67, 111, 110, 116, 101, 110, 116, 45, 84, 121, 112, 101,
                      58, 32>>

MetadataPart(bnd, json) ==
    Concat(<<<<Dash, Dash>>, bnd, <<CR, LF>>, ContentTypeJson,
             <<CR, LF, CR, LF>>, json, <<CR, LF>>>>)

FilePart(bnd, type) ==
    Concat(<<<<Dash, Dash>>, bnd, <<CR, LF>>, ContentTypeLabel, type,
             <<CR, LF, CR, LF>>>>)

EndPart(bnd) == Concat(<<<<CR, LF, Dash, Dash>>, bnd, <<Dash, Dash>>>>)

\* new Uint8Array(n)
NewUint8Array(n) == [i \in 1..n |-> 0]

\* buf.set(arr, offset)
SetAt(buf, arr, offset) ==
    [i \in 1..Len(buf) |->
        IF offset < i /\ i <= offset + Len(arr) THEN arr[i - offset] ELSE buf[i]]

BodyOf_StaleOffset(bnd, json, type, fileContent) ==
    LET metadataBytes   == Utf8(MetadataPart(bnd, json))
        fileHeaderBytes == Utf8(FilePart(bnd, type))
        endBytes        == Utf8(EndPart(bnd))
        body0   == NewUint8Array(Len(metadataBytes) + Len(fileHeaderBytes)
                                 + Len(fileContent) + Len(endBytes))
        offset0 == 0
        body1   == SetAt(body0, metadataBytes, offset0)
        offset1 == offset0 + Len(metadataBytes)
        body2   == SetAt(body1, fileHeaderBytes, offset1)
        offset2 == offset1 + Len(fileHeaderBytes)
        body3   == SetAt(body2, fileContent, offset2)
    IN  SetAt(body3, endBytes, offset2)

\* lines 107-124: the four segments copied into one buffer
BodyOf(bnd, json, type, fileContent) ==
    LET metadataBytes   == Utf8(MetadataPart(bnd, json))
        fileHeaderBytes == Utf8(FilePart(bnd, type))
        endBytes        == Utf8(EndPart(bnd))
        body0   == NewUint8Array(Len(metadataBytes) + Len(fileHeaderBytes)
                                 + Len(fileContent) + Len(endBytes))
        offset0 == 0
        body1   == SetAt(body0, metadataBytes, offset0)
        offset1 == offset0 + Len(metadataBytes)
        body2   == SetAt(body1, fileHeaderBytes, offset1)
        offset2 == offset1 + Len(fileHeaderBytes)
        body3   == SetAt(body2, fileContent, offset2)
        offset3 == offset2 + Len(fileContent)
    IN  SetAt(body3, endBytes, offset3)

----------------------------------------------------------------------------
(* The request handler *)

\* no request has arrived yet
HandlerStart ==
    /\ clock = StartClock
    /\ pc = [r \in Requests |-> "idle"]
    /\ file = [r \in Requests |-> NoFile]
    /\ payload = [r \in Requests |-> NoPayload]
    /\ objectName = [r \in Requests |-> None]
    /\ tokenResponse = [r \in Requests |-> None]
    /\ uploadResponse = [r \in Requests |-> None]
    /\ tokenFetch = [r \in Requests |-> <<>>]
    /\ uploadFetch = [r \in Requests |-> <<>>]
    /\ response = [r \in Requests |-> <<>>]
    /\ error = [r \in Requests |-> None]

SignIdle ==
    /\ jwtClaims = None
    /\ unsignedToken = <<>>
    /\ signature = None
    /\ jwt = <<>>
    /\ signPc = "idle"

EncIdle ==
    /\ upload = None
    /\ boundary = <<>>
    /\ metadata = <<>>
    /\ body = <<>>
    /\ encPc = "idle"

Init ==
    /\ HandlerStart
    /\ env \in [GOOGLE_CLOUD_SERVICE_ACCOUNT_KEY : CredentialBlobs,
                BUCKET_NAME : BucketNames]
    /\ SignIdle
    /\ EncIdle

\* the wall clock advances on its own
Tick ==
    /\ clock < MaxClock
    /\ clock' = clock + 1
    /\ UNCHANGED <<env, pc, file, payload, objectName, tokenResponse,
                   uploadResponse, tokenFetch, uploadFetch, response, error>>
    /\ UNCHANGED <<signVars, encVars>>

\* a POST /upload request arrives; the handler suspends at c.req.formData()
Arrive(r) ==
    /\ pc[r] = "idle"
    /\ \E f \in RequestBodies : file' = [file EXCEPT ![r] = f]
    /\ pc' = [pc EXCEPT ![r] = "formData"]
    /\ UNCHANGED <<clock, env, payload, objectName, tokenResponse,
                   uploadResponse, tokenFetch, uploadFetch, response, error>>
    /\ UNCHANGED <<signVars, encVars>>

\* from the formData() result to the await inside sign() (lines 61-80)
BuildAssertion(r) ==
    /\ pc[r] = "formData"
    /\ LET step == ParseStep(file[r], env.GOOGLE_CLOUD_SERVICE_ACCOUNT_KEY) IN
       CASE step = "missing" ->
              /\ response' = [response EXCEPT ![r] = Append(@, MissingText)]
              /\ pc' = [pc EXCEPT ![r] = "done"]
              /\ UNCHANGED <<clock, payload, error>>
         [] step = "proceed" ->
              \* two readings of Date.now(); the clock may move in between
              \E now2 \in clock..(IF clock < MaxClock THEN clock + 1 ELSE clock) :
                 /\ payload' = [payload EXCEPT
                                  ![r] = [built |-> TRUE, exp |-> ExpOf(clock),
                                          iat |-> IatOf(now2)]]
                 /\ clock' = now2
                 /\ pc' = [pc EXCEPT ![r] = "sign"]
                 /\ UNCHANGED <<response, error>>
         [] OTHER ->
              /\ Catch(r, step)
              /\ UNCHANGED <<clock, payload>>
    /\ UNCHANGED <<env, file, objectName, tokenResponse, uploadResponse,
                   tokenFetch, uploadFetch>>
    /\ UNCHANGED <<signVars, encVars>>

\* sign() settles; on success the token request is sent (lines 80-86)
SignAndFetchToken(r) ==
    /\ pc[r] = "sign"
    /\ IF SignThrows(env.GOOGLE_CLOUD_SERVICE_ACCOUNT_KEY)
       THEN /\ Catch(r, "sign")
            /\ UNCHANGED tokenFetch
       ELSE /\ tokenFetch' = [tokenFetch EXCEPT
                                ![r] = Append(@, [assertion |-> payload[r]])]
            /\ pc' = [pc EXCEPT ![r] = "tokenFetch"]
            /\ UNCHANGED <<response, error>>
    /\ UNCHANGED <<clock, env, file, payload, objectName, tokenResponse,
                   uploadResponse, uploadFetch>>
    /\ UNCHANGED <<signVars, encVars>>

TokenReply_NoCheck(r, res) ==
    /\ pc[r] = "tokenFetch"
    /\ tokenResponse' = [tokenResponse EXCEPT ![r] = res]
    /\ CASE res = "rejected" -> Catch(r, "fetch")
         [] OTHER            -> /\ pc' = [pc EXCEPT ![r] = "tokenJson"]
                                /\ UNCHANGED <<response, error>>
    /\ UNCHANGED <<clock, env, file, payload, objectName, uploadResponse,
                   tokenFetch, uploadFetch>>
    /\ UNCHANGED <<signVars, encVars>>

TokenReply_Retry(r, res) ==
    /\ pc[r] = "tokenFetch"
    /\ tokenResponse' = [tokenResponse EXCEPT ![r] = res]
    /\ CASE res = "rejected" -> Catch(r, "fetch")
         [] res = "notOk"    -> /\ pc' = [pc EXCEPT ![r] = "sign"]
                                /\ UNCHANGED <<response, error>>
         [] res = "ok"       -> /\ pc' = [pc EXCEPT ![r] = "tokenJson"]
                                /\ UNCHANGED <<response, error>>
    /\ UNCHANGED <<clock, env, file, payload, objectName, uploadResponse,
                   tokenFetch, uploadFetch>>
    /\ UNCHANGED <<signVars, encVars>>

\* the token endpoint answers, or fetch() rejects (lines 82-90)
TokenReply(r, res) ==
    /\ pc[r] = "tokenFetch"
    /\ tokenResponse' = [tokenResponse EXCEPT ![r] = res]
    /\ CASE res = "rejected" -> Catch(r, "fetch")
         [] res = "notOk"    -> Catch(r, "Failed to get access token")
         [] res = "ok"       -> /\ pc' = [pc EXCEPT ![r] = "tokenJson"]
                                /\ UNCHANGED <<response, error>>
    /\ UNCHANGED <<clock, env, file, payload, objectName, uploadResponse,
                   tokenFetch, uploadFetch>>
    /\ UNCHANGED <<signVars, encVars>>

\* tokenResponse.json() settles; names the object and asks for the file
\* bytes (lines 90-109)
NameObject(r, parsed) ==
    /\ pc[r] = "tokenJson"
    /\ IF ~parsed
       THEN /\ Catch(r, "tokenResponse.json")
            /\ UNCHANGED objectName
       ELSE /\ objectName' = [objectName EXCEPT
                                ![r] = ObjectNameOf(clock, file[r])]
            /\ IF ImageField(file[r]).kind # "File"
               THEN \* a string has no arrayBuffer(): TypeError
                    Catch(r, "file.arrayBuffer")
               ELSE /\ pc' = [pc EXCEPT ![r] = "arrayBuffer"]
                    /\ UNCHANGED <<response, error>>
    /\ UNCHANGED <<clock, env, file, payload, tokenResponse, uploadResponse,
                   tokenFetch, uploadFetch>>
    /\ UNCHANGED <<signVars, encVars>>

\* file.arrayBuffer() settles; the body is assembled and sent (lines 109-135)
FetchUpload(r, read) ==
    /\ pc[r] = "arrayBuffer"
    /\ IF ~read
       THEN /\ Catch(r, "file.arrayBuffer")
            /\ UNCHANGED uploadFetch
       ELSE /\ uploadFetch' = [uploadFetch EXCEPT
                                 ![r] = Append(@, [bucket |-> env.BUCKET_NAME,
                                                   name   |-> objectName[r]])]
            /\ pc' = [pc EXCEPT ![r] = "uploadFetch"]
            /\ UNCHANGED <<response, error>>
    /\ UNCHANGED <<clock, env, file, payload, objectName, tokenResponse,
                   uploadResponse, tokenFetch>>
    /\ UNCHANGED <<signVars, encVars>>

\* the upload endpoint answers, or fetch() rejects (lines 125-140)
UploadReply(r, res) ==
    /\ pc[r] = "uploadFetch"
    /\ uploadResponse' = [uploadResponse EXCEPT ![r] = res]
    /\ CASE res = "rejected" -> Catch(r, "fetch")
         [] res = "notOk"    -> Catch(r, "Failed to upload image")
         [] res = "ok"       ->
              /\ response' = [response EXCEPT ![r] = Append(@, SuccessText(r))]
              /\ pc' = [pc EXCEPT ![r] = "done"]
              /\ UNCHANGED error
    /\ UNCHANGED <<clock, env, file, payload, objectName, tokenResponse,
                   tokenFetch, uploadFetch>>
    /\ UNCHANGED <<signVars, encVars>>

Next ==
    \/ Tick
    \/ \E r \in Requests : Arrive(r)
    \/ \E r \in Requests : BuildAssertion(r)
    \/ \E r \in Requests : SignAndFetchToken(r)
    \/ \E r \in Requests, res \in FetchResults : TokenReply(r, res)
    \/ \E r \in Requests, parsed \in BOOLEAN : NameObject(r, parsed)
    \/ \E r \in Requests, read \in BOOLEAN : FetchUpload(r, read)
    \/ \E r \in Requests, res \in FetchResults : UploadReply(r, res)

Spec == Init /\ [][Next]_vars

----------------------------------------------------------------------------
(* Building and signing the assertion, lines 70-81, on actual strings *)

MaxSigLen == 3

Issuers == {<<97, 64, 120, 46, 105, 111>>}    \* "a@x.io"
SigBytes == {0, 62, 251, 255}

RECURSIVE SeqsUpTo(_, _)
SeqsUpTo(S, n) ==
    IF n = 0 THEN {<<>>}
    ELSE LET shorter == SeqsUpTo(S, n - 1) IN
         shorter \cup {Append(q, x) : q \in shorter, x \in S}

RawSignatures == SeqsUpTo(SigBytes, MaxSigLen) \ {<<>>}

ClaimInputs ==
    {[iss |-> i, exp |-> ExpOf(t1), iat |-> IatOf(t2)] :
        i \in Issuers, t1 \in StartClock..MaxClock, t2 \in StartClock..MaxClock}

InitSign ==
    /\ HandlerStart
    /\ env = [GOOGLE_CLOUD_SERVICE_ACCOUNT_KEY |-> "valid",
              BUCKET_NAME |-> "bucket-a"]
    /\ EncIdle
    /\ jwtClaims \in ClaimInputs
    /\ unsignedToken = <<>>
    /\ signature = None
    /\ jwt = <<>>
    /\ signPc = "encode"

\* lines 77-79
EncodeToken ==
    /\ signPc = "encode"
    /\ unsignedToken' = UnsignedToken(jwtClaims)
    /\ signPc' = "sign"
    /\ UNCHANGED <<jwtClaims, signature, jwt>>
    /\ UNCHANGED <<handlerVars, encVars>>

\* lines 80-81 with sign(), lines 43-53: crypto.subtle.sign returns some
\* signature over the encoded data
SignToken(raw) ==
    /\ signPc = "sign"
    /\ signature' = [over |-> Utf8(unsignedToken), bytes |-> raw]
    /\ jwt' = Jwt(unsignedToken, raw)
    /\ signPc' = "jwt"
    /\ UNCHANGED <<jwtClaims, unsignedToken>>
    /\ UNCHANGED <<handlerVars, encVars>>

NextSign ==
    \/ EncodeToken
    \/ \E raw \in RawSignatures : SignToken(raw)

SpecSign == InitSign /\ [][NextSign]_vars

----------------------------------------------------------------------------
(* Encoding the upload body, lines 93-124, on actual bytes *)

MaxPad == 1

WordValues == {0, 2147483647}
RandomWords == [1..NumWords -> WordValues]

\* the boundary a file would have to guess
GuessedBoundary == BoundaryOf([i \in 1..NumWords |-> 0])

PadBytes == {0, Dash}
Pads == SeqsUpTo(PadBytes, MaxPad)
Cores == {<<>>, <<CR, LF>>, <<Dash, Dash>> \o GuessedBoundary,
          <<CR, LF, Dash, Dash>> \o GuessedBoundary}
FileContents == {Concat(<<p, c, q>>) : p \in Pads, c \in Cores, q \in Pads}

UploadNames == {<<97, 46, 112, 110, 103>>,     \* "a.png"
                <<CR, LF, Dash, Dash>> \o GuessedBoundary}
UploadTypes == {<<105, 109, 97, 103, 101, 47, 112, 110, 103>>}   \* "image/png"

Uploads == [now : {StartClock}, name : UploadNames, type : UploadTypes,
            content : FileContents]

InitEnc ==
    /\ HandlerStart
    /\ env = [GOOGLE_CLOUD_SERVICE_ACCOUNT_KEY |-> "valid",
              BUCKET_NAME |-> "bucket-a"]
    /\ SignIdle
    /\ upload \in Uploads
    /\ boundary = <<>>
    /\ metadata = <<>>
    /\ body = <<>>
    /\ encPc = "name"

\* lines 93-100: objectName, metadata and the random boundary
DrawBoundary(words) ==
    /\ encPc = "name"
    /\ metadata' = MetadataJson(ObjectNameText(upload.now, upload.name),
                                upload.type)
    /\ boundary' = BoundaryOf(words)
    /\ encPc' = "assemble"
    /\ UNCHANGED <<upload, body>>
    /\ UNCHANGED <<handlerVars, signVars>>

\* lines 101-124
AssembleBody ==
    /\ encPc = "assemble"
    /\ body' = BodyOf(boundary, metadata, upload.type, upload.content)
    /\ encPc' = "fetch"
    /\ UNCHANGED <<upload, boundary, metadata>>
    /\ UNCHANGED <<handlerVars, signVars>>

NextEnc ==
    \/ \E words \in RandomWords : DrawBoundary(words)
    \/ AssembleBody

SpecEnc == InitEnc /\ [][NextEnc]_vars

----------------------------------------------------------------------------
(* Properties of the request handler, checked under Spec *)

GenericError == [status |-> 500, body |-> <<"Internal Server Error">>]
Credential == env.GOOGLE_CLOUD_SERVICE_ACCOUNT_KEY

\* C1: a request whose form data has no image field is answered 400
\* "Missing image file" under every configuration, and no token or upload
\* request is issued for it.
C1_MissingImage ==
    \A r \in Requests :
        file[r].kind = "absent" =>
            /\ tokenFetch[r] = <<>>
            /\ uploadFetch[r] = <<>>
            /\ pc[r] = "done" =>
                 response[r] = <<[status |-> 400, body |-> <<"Missing image file">>]>>

C1_Witness ==
    \E r \in Requests :
        /\ file[r].kind = "absent"
        /\ pc[r] = "done"
        /\ Credential = "notJson"

\* C2: when the token endpoint answers with a non-success status the request
\* is answered 500 "Internal Server Error" and no upload request is issued.
C2_TokenRejected ==
    \A r \in Requests :
        tokenResponse[r] = "notOk" =>
            /\ uploadFetch[r] = <<>>
            /\ pc[r] = "done"
            /\ response[r] = <<GenericError>>

C2_Witness ==
    \E r \in Requests : tokenResponse[r] = "notOk" /\ pc[r] = "done"

\* C3: a 200 response is given only after the token exchange and the upload
\* both succeeded, and its body carries the URL made of the configured bucket
\* and the object name images/<timestamp>-<filename> that was sent in the
\* metadata of that request's upload.
C3_SuccessUrl ==
    \A r \in Requests : \A i \in 1..Len(response[r]) :
        response[r][i].status = 200 =>
            /\ tokenResponse[r] = "ok"
            /\ uploadResponse[r] = "ok"
            /\ Len(uploadFetch[r]) = 1
            /\ uploadFetch[r][1].bucket = env.BUCKET_NAME
            /\ \E t \in StartClock..MaxClock :
                 uploadFetch[r][1].name = <<"images/", t, "-", file[r].name>>
            /\ response[r][i].body =
                 <<"Image uploaded successfully: ",
                   <<"https://storage.googleapis.com/", env.BUCKET_NAME, "/",
                     uploadFetch[r][1].name>>>>

C3_Witness ==
    \E r \in Requests :
        /\ response[r] # <<>>
        /\ response[r][1].status = 200
        /\ uploadFetch[r][1].name[2] < clock

\* C4: in every payload the handler builds, exp equals iat plus 3600, also
\* when the clock advances between the two readings.
C4_ExpIsIatPlus3600 ==
    \A r \in Requests :
        payload[r].built => payload[r].exp = payload[r].iat + 3600

\* C5 as stated: with a credential blob that is not JSON every request is
\* answered 500 "Internal Server Error", whatever its form data contains.
C5_Original ==
    Credential = "notJson" =>
        \A r \in Requests : pc[r] = "done" => response[r] = <<GenericError>>

\* C5 as amended: with a credential blob that is not JSON, a request whose
\* image field is a file or a non-empty string, or whose body is not form
\* data, is answered 500 "Internal Server Error" without any upstream
\* request; one whose image field is absent or empty is answered 400.
C5_Amended ==
    Credential = "notJson" =>
        \A r \in Requests :
            pc[r] = "done" =>
                /\ tokenFetch[r] = <<>>
                /\ uploadFetch[r] = <<>>
                /\ response[r] =
                     IF file[r].kind \in {"absent", "emptyText"}
                     THEN <<[status |-> 400, body |-> <<"Missing image file">>]>>
                     ELSE <<GenericError>>

C5_Witness ==
    /\ Credential = "notJson"
    /\ \E r \in Requests :
         pc[r] = "done" /\ file[r].kind = "File" /\ error[r] = "JSON.parse"

\* C6: every failure of a request that has an image field (credential parse,
\* signing, token exchange, reading the file, rejected upload) is answered
\* 500 with exactly the body "Internal Server Error", the same for every
\* kind of failure.
C6_GenericFailure ==
    \A r \in Requests :
        /\ error[r] # None => response[r] = <<GenericError>>
        /\ (pc[r] = "done" /\ file[r].kind \in {"text", "File"}
              /\ response[r][1].status # 200)
             => (error[r] # None /\ response[r] = <<GenericError>>)

C6_Witness ==
    \E r1, r2 \in Requests :
        /\ file[r1].kind = "File" /\ error[r1] = "Failed to upload image"
        /\ file[r2].kind = "text" /\ error[r2] = "file.arrayBuffer"
        /\ response[r1] = response[r2]

\* C7: any two requests that both sent an upload sent different object names.
C7_DistinctNames ==
    \A r1, r2 \in Requests :
        (r1 # r2 /\ uploadFetch[r1] # <<>> /\ uploadFetch[r2] # <<>>)
            => uploadFetch[r1][1].name # uploadFetch[r2][1].name

\* what holds of one request in every state
C8_State(r) ==
    /\ Len(tokenFetch[r]) <= 1
    /\ Len(uploadFetch[r]) <= 1
    /\ tokenFetch[r] # <<>> =>
         /\ Credential = "valid"
         /\ payload[r].built
         /\ tokenFetch[r][1].assertion = payload[r]
    /\ Credential # "valid" => (tokenFetch[r] = <<>> /\ uploadFetch[r] = <<>>)
    /\ uploadFetch[r] # <<>> => (tokenFetch[r] # <<>> /\ tokenResponse[r] = "ok")
    /\ Len(response[r]) = IF pc[r] = "done" THEN 1 ELSE 0

\* what holds of one request in every step
C8_Step(r) ==
    pc[r] = "done" =>
        /\ pc'[r] = "done"
        /\ tokenFetch'[r] = tokenFetch[r]
        /\ uploadFetch'[r] = uploadFetch[r]
        /\ response'[r] = response[r]

\* C8: per request the token request is issued at most once and only after
\* the credential was parsed and the assertion signed, the upload request at
\* most once and only after a successful token response, and a finished
\* request issues nothing more and has exactly one response.
C8_Linear ==
    /\ [](\A r \in Requests : C8_State(r))
    /\ [][\A r \in Requests : C8_Step(r)]_vars

C8_Witness ==
    \E r1, r2 \in Requests :
        /\ pc[r1] = "done" /\ response[r1][1].status = 200
        /\ Len(tokenFetch[r1]) = 1 /\ Len(uploadFetch[r1]) = 1
        /\ pc[r2] = "done" /\ tokenResponse[r2] = "notOk"
        /\ Len(tokenFetch[r2]) = 1 /\ uploadFetch[r2] = <<>>

----------------------------------------------------------------------------
(* The signature segment, checked under SpecSign *)

B64UrlValue(c) ==
    CASE c = Dash       -> 62
      [] c = Underscore -> 63
      [] OTHER          -> (CHOOSE i \in 1..64 : B64Chars[i] = c) - 1

\* base64url decoding: every four characters give three bytes, a rest of two
\* or three characters gives one or two
B64UrlDecode(str) ==
    LET n == Len(str)
        V(k) == IF k <= n THEN B64UrlValue(str[k]) ELSE 0
        len == (3 * (n \div 4)) + (IF n % 4 = 0 THEN 0 ELSE (n % 4) - 1)
    IN  [i \in 1..len |->
           LET g == 4 * ((i - 1) \div 3) IN
           CASE (i - 1) % 3 = 0 -> (V(g + 1) * 4) + (V(g + 2) \div 16)
             [] (i - 1) % 3 = 1 -> ((V(g + 2) % 16) * 16) + (V(g + 3) \div 4)
             [] (i - 1) % 3 = 2 -> ((V(g + 3) % 4) * 64) + V(g + 4)]

Dots(str) == {i \in 1..Len(str) : str[i] = Dot}
LastDot(str) == CHOOSE i \in Dots(str) : \A j \in Dots(str) : j <= i

\* C9: the third segment of the assertion is the base64url encoding, applied
\* once, of the raw signature over `<encodedHeader>.<encodedPayload>`:
\* decoding it once gives the signature bytes, and those were computed over
\* the first two segments.
C9_SignatureSegment ==
    signPc = "jwt" =>
        /\ Cardinality(Dots(jwt)) = 2
        /\ B64UrlDecode(SubSeq(jwt, LastDot(jwt) + 1, Len(jwt))) = signature.bytes
        /\ SubSeq(jwt, 1, LastDot(jwt) - 1) = signature.over

----------------------------------------------------------------------------
(* The multipart body, checked under SpecEnc *)

IsAt(hay, needle, i) ==
    /\ i >= 1
    /\ i + Len(needle) - 1 <= Len(hay)
    /\ \A k \in 1..Len(needle) : hay[i + k - 1] = needle[k]

\* the first position from `from` on where needle occurs, 0 if none
Find(hay, needle, from) ==
    LET hits == {i \in from..Len(hay) : IsAt(hay, needle, i)} IN
    IF hits = {} THEN 0 ELSE CHOOSE i \in hits : \A j \in hits : i <= j

Contains(hay, needle) == Find(hay, needle, 1) # 0

\* the content of a body part: what follows the blank line after its headers
PartContent(part) ==
    LET k == Find(part, <<CR, LF, CR, LF>>, 1) IN
    IF k = 0 THEN <<>> ELSE SubSeq(part, k + 4, Len(part))

\* A multipart parser: the first part starts after the first boundary line,
\* every part ends at the next delimiter CRLF "--" boundary.
ParseMultipart(b, bnd) ==
    LET dashBoundary == <<Dash, Dash>> \o bnd
        delimiter    == <<CR, LF>> \o dashBoundary
        s1 == Len(dashBoundary) + 3
        e1 == Find(b, delimiter, s1)
        s2 == e1 + Len(delimiter) + 2
        e2 == Find(b, delimiter, s2)
    IN  IF \/ ~IsAt(b, dashBoundary \o <<CR, LF>>, 1)
           \/ e1 = 0
           \/ ~IsAt(b, <<CR, LF>>, e1 + Len(delimiter))
           \/ e2 = 0
        THEN [ok |-> FALSE]
        ELSE [ok       |-> TRUE,
              metadata |-> PartContent(SubSeq(b, s1, e1 - 1)),
              bytes    |-> PartContent(SubSeq(b, s2, e2 - 1))]

\* the framing of the body, written out
Framed(bnd, json, type, bytes) ==
    Concat(<<<<Dash, Dash>>, bnd, <<CR, LF>>, ContentTypeJson,
             <<CR, LF, CR, LF>>, json, <<CR, LF>>,
             <<Dash, Dash>>, bnd, <<CR, LF>>, ContentTypeLabel, type,
             <<CR, LF, CR, LF>>, bytes, <<CR, LF>>,
             <<Dash, Dash>>, bnd, <<Dash, Dash>>>>)

ExactFraming ==
    /\ body = Framed(boundary, metadata, upload.type, upload.content)
    /\ Len(body) = Len(MetadataPart(boundary, metadata))
                   + Len(FilePart(boundary, upload.type))
                   + Len(upload.content) + Len(EndPart(boundary))

RoundTrip ==
    LET parsed == ParseMultipart(body, boundary) IN
    /\ parsed.ok
    /\ parsed.metadata = metadata
    /\ parsed.bytes = upload.content

\* the file bytes contain the delimiter, or start with "--" boundary, which
\* together with the blank line before them reads as the delimiter
FileHitsBoundary ==
    \/ Contains(upload.content, <<CR, LF, Dash, Dash>> \o boundary)
    \/ IsAt(upload.content, <<Dash, Dash>> \o boundary, 1)

\* C10 as stated: the body is exactly the framed byte sequence and splitting
\* it on the boundary delimiter gives back the metadata JSON and the file
\* bytes, whatever the file bytes are.
C10_Original == encPc = "fetch" => (ExactFraming /\ RoundTrip)

\* C10 as amended: the body is exactly the framed byte sequence, and
\* splitting it on the boundary delimiter gives back the metadata JSON and the
\* file bytes whenever the file bytes neither contain CRLF "--" boundary nor
\* start with "--" boundary.
C10_Amended ==
    encPc = "fetch" =>
        /\ ExactFraming
        /\ ~FileHitsBoundary => RoundTrip

C10_Witness ==
    /\ encPc = "fetch"
    /\ ~FileHitsBoundary
    /\ Contains(upload.content, <<CR, LF>>)
    /\ Contains(upload.name, <<CR, LF, Dash, Dash>> \o boundary)
    /\ RoundTrip

====
